---- MODULE Spec2Model ----
(***************************************************************************)
(* Model of scripts/01_extract_rests.py: the event-list locator, the event *)
(* classifier, interval coalescing, rest-interval extraction and the       *)
(* orchestrator (main).                                                    *)
(*                                                                         *)
(* Numbers.  The script works on floats; the model works on the integer    *)
(* grid whose unit is EPS (1e-9 quarter), so EPS is the integer 1 and every *)
(* comparison against EPS (<=, >) keeps the three cases below / equal /     *)
(* above.  Float rounding, NaN and infinities are not modelled.            *)
(*                                                                         *)
(* JSON values are tagged records; a mapping keeps its items in document   *)
(* order, as a Python dict built by json.load does.                        *)
(***************************************************************************)
EXTENDS Integers, Sequences, FiniteSets, TLC

VARIABLES pc, intervals, out, out2,
          events, require_explicit, rest_intervals, path,
          obj, found,
          lumen_obj, nidi_obj, args, lumen_events, nidi_events,
          stdout, status, saved

vars == <<pc, intervals, out, out2, events, require_explicit, rest_intervals, path,
          obj, found, lumen_obj, nidi_obj, args, lumen_events, nidi_events,
          stdout, status, saved>>

(***************************************************************************)
(* Bounds of the model.                                                    *)
(***************************************************************************)
MaxIntervals == 3
MaxTime == 4
MaxEvents == 3
MaxOnset == 4
MaxDepth == 2
MaxItems == 2

(***************************************************************************)
(* Program constants.                                                      *)
(***************************************************************************)
EPS == 1

(***************************************************************************)
(* JSON values.                                                            *)
(***************************************************************************)
Null == [t |-> "null"]
Bool(b) == [t |-> "bool", b |-> b]
Num(n) == [t |-> "num", n |-> n]
Str(s) == [t |-> "str", s |-> s]
List(q) == [t |-> "list", items |-> q]
Dict(q) == [t |-> "dict", items |-> q]
KV(k, v) == [k |-> k, v |-> v]

IsList(v) == v.t = "list"
IsDict(v) == v.t = "dict"

\* the position of key k among the items of mapping d, 0 when k is not in d
KeyIndex(d, k) ==
    IF \E i \in 1..Len(d.items) : d.items[i].k = k
    THEN CHOOSE i \in 1..Len(d.items) : d.items[i].k = k
    ELSE 0
\* k in d
HasKey(d, k) == KeyIndex(d, k) # 0
\* d[k], for a key that is present
Get(d, k) == d.items[KeyIndex(d, k)].v
\* d.get(k): Null when k is not in d
GetOrNull(d, k) == IF HasKey(d, k) THEN Get(d, k) ELSE Null

\* bool(v)
Truthy(v) ==
    CASE v.t = "null" -> FALSE
      [] v.t = "bool" -> v.b
      [] v.t = "num" -> v.n # 0
      [] v.t = "str" -> v.s # ""
      [] v.t = "list" -> v.items # <<>>
      [] v.t = "dict" -> v.items # <<>>

\* The strings of the model whose lower-case form contains "rest".
RestNames == {"rest", "Rest", "quarter_rest"}
\* The strings of the model that float() parses, with their values.
NumericStrings == {"0", "2"}
ParseFloat(s) == IF s = "0" THEN 0 ELSE 2

Max(a, b) == IF a >= b THEN a ELSE b
Min(a, b) == IF a <= b THEN a ELSE b

(***************************************************************************)
(* Event-list locator.                                                     *)
(***************************************************************************)
PriorityKeys == <<"events", "event_list", "items", "notes", "data", "sequence", "segments">>

\* isinstance(v, list) and (len(v) == 0 or isinstance(v[0], dict))
EventListLike(v) == IsList(v) /\ (v.items = <<>> \/ IsDict(v.items[1]))

\* lines 43-46: the value of the first priority key that passes the test, or Null
RECURSIVE PriorityHit(_, _)
PriorityHit(d, keys) ==
    IF keys = <<>> THEN Null
    ELSE LET v == GetOrNull(d, Head(keys))
         IN IF EventListLike(v) THEN v ELSE PriorityHit(d, Tail(keys))

RECURSIVE find_event_list(_)
RECURSIVE FirstFound(_)
\* lines 47-51: the first result that is not None among the values, in order
FirstFound(items) ==
    IF items = <<>> THEN Null
    ELSE LET v == Head(items).v
             ev == IF IsDict(v) \/ IsList(v) THEN find_event_list(v) ELSE Null
         IN IF ev # Null THEN ev ELSE FirstFound(Tail(items))

\* Optional[List]: Null for None
find_event_list(o) ==
    IF EventListLike(o) THEN o
    ELSE IF IsDict(o)
         THEN LET hit == PriorityHit(o, PriorityKeys)
              IN IF hit # Null THEN hit ELSE FirstFound(o.items)
         ELSE Null

(***************************************************************************)
(* Event classifier.                                                       *)
(***************************************************************************)
RECURSIVE first_present(_, _)
first_present(d, keys) ==
    IF keys = <<>> THEN Null
    ELSE LET v == GetOrNull(d, Head(keys))
         IN IF v # Null THEN v ELSE first_present(d, Tail(keys))

\* Optional[float]: Null or Num(n)
to_float(x) ==
    CASE x.t = "null" -> Null
      [] x.t = "num" -> x
      [] x.t = "bool" -> Num(IF x.b THEN 1 ELSE 0)
      [] x.t = "str" -> IF x.s \in NumericStrings THEN Num(ParseFloat(x.s)) ELSE Null
      [] x.t = "list" -> Null
      [] x.t = "dict" -> Null

RestFlagKeys == <<"is_rest", "isRest", "rest", "is_silence", "silence">>
TypeKeys == <<"type", "kind", "event_type", "eventType", "name">>
PitchKeys == <<"pitch_midi", "pitchMidi", "pitch", "pc", "pitch_class", "pitchClass">>
PitchesKeys == <<"pitches", "midi", "midis">>
OnsetKeys == <<"offset", "off", "onset", "start", "t", "time", "offset_q", "onset_q", "start_q">>
DurKeys == <<"dur_q", "duration_q", "dur", "duration", "ql", "quarterLength", "quarter_length">>
Dur8Keys == <<"dur_8", "duration_8", "eighth", "eighths">>

is_rest_event(ev) ==
    LET t == first_present(ev, TypeKeys)
        pitch_like == first_present(ev, PitchKeys)
        pitches == first_present(ev, PitchesKeys)
    IN \/ \E i \in 1..Len(RestFlagKeys) :
             HasKey(ev, RestFlagKeys[i]) /\ Truthy(Get(ev, RestFlagKeys[i]))
       \/ t.t = "str" /\ t.s \in RestNames
       \/ pitch_like = Null /\ IsList(pitches) /\ pitches.items = <<>>

get_onset(ev) == to_float(first_present(ev, OnsetKeys))

get_dur(ev) ==
    LET dur == to_float(first_present(ev, DurKeys))
        dur8 == to_float(first_present(ev, Dur8Keys))
    IN IF dur # Null THEN dur
       ELSE IF dur8 # Null THEN Num(dur8.n \div 2)
       ELSE Null

(***************************************************************************)
(* Interval coalescing.  An interval is a pair <<start, end>>.             *)
(***************************************************************************)
\* (x[0], x[1]) <= (y[0], y[1]), the order of the sort key
KeyLeq(x, y) == x[1] < y[1] \/ (x[1] = y[1] /\ x[2] <= y[2])

RECURSIVE InsertSorted(_, _)
InsertSorted(x, q) ==
    IF q = <<>> THEN <<x>>
    ELSE IF KeyLeq(Head(q), x) THEN <<Head(q)>> \o InsertSorted(x, Tail(q))
    ELSE <<x>> \o q

\* sorted() left out: the list in the order given
Unsorted(q) == q

RECURSIVE sorted(_)
sorted(q) ==
    IF q = <<>> THEN <<>>
    ELSE InsertSorted(q[Len(q)], sorted(SubSeq(q, 1, Len(q) - 1)))

\* a merge that takes the end of the merged interval, not the maximum of ends
RECURSIVE CoalesceLoopNoMax(_, _, _)
CoalesceLoopNoMax(rest, acc, eps) ==
    IF rest = <<>> THEN acc
    ELSE LET s == Head(rest)[1]
             e == Head(rest)[2]
             ps == acc[Len(acc)][1]
             pe == acc[Len(acc)][2]
         IN IF s <= pe + eps
            THEN CoalesceLoopNoMax(Tail(rest), [acc EXCEPT ![Len(acc)] = <<ps, e>>], eps)
            ELSE CoalesceLoopNoMax(Tail(rest), Append(acc, <<s, e>>), eps)

RECURSIVE CoalesceLoop(_, _, _)
CoalesceLoop(rest, acc, eps) ==
    IF rest = <<>> THEN acc
    ELSE LET s == Head(rest)[1]
             e == Head(rest)[2]
             ps == acc[Len(acc)][1]
             pe == acc[Len(acc)][2]
         IN IF s <= pe + eps
            THEN CoalesceLoop(Tail(rest), [acc EXCEPT ![Len(acc)] = <<ps, Max(pe, e)>>], eps)
            ELSE CoalesceLoop(Tail(rest), Append(acc, <<s, e>>), eps)

\* a merge test against the end of the previous input interval, not against the
\* end accumulated so far
RECURSIVE CoalescePrevLoop(_, _, _, _)
CoalescePrevLoop(rest, prev, acc, eps) ==
    IF rest = <<>> THEN acc
    ELSE LET s == Head(rest)[1]
             e == Head(rest)[2]
             ps == acc[Len(acc)][1]
             pe == acc[Len(acc)][2]
         IN IF s <= prev[2] + eps
            THEN CoalescePrevLoop(Tail(rest), Head(rest),
                                  [acc EXCEPT ![Len(acc)] = <<ps, Max(pe, e)>>], eps)
            ELSE CoalescePrevLoop(Tail(rest), Head(rest), Append(acc, <<s, e>>), eps)
coalesce_previous(ivs, eps) ==
    IF ivs = <<>> THEN <<>>
    ELSE LET srt == sorted(ivs)
         IN CoalescePrevLoop(Tail(srt), Head(srt), <<Head(srt)>>, eps)

coalesce_intervals(ivs, eps) ==
    IF ivs = <<>> THEN <<>>
    ELSE LET srt == sorted(ivs)
         IN CoalesceLoop(Tail(srt), <<Head(srt)>>, eps)

(***************************************************************************)
(* The event records of the model.                                         *)
(***************************************************************************)
Ev(q) == Dict(q)

\* an explicit rest of length EPS + 1, its onset under the second alias that
\* is present and not null, its duration in eighths
RestAt(o) ==
    Ev(<<KV("isRest", Bool(TRUE)), KV("offset", Null), KV("onset", Num(o)),
         KV("dur_8", Num(2 * (EPS + 1)))>>)
\* a sounding note
NoteAt(o, d) == Ev(<<KV("pitch", Num(60)), KV("onset", Num(o)), KV("dur", Num(d))>>)

OddEvents ==
    { \* a rest whose duration is positive but not above EPS
      Ev(<<KV("type", Str("Rest")), KV("offset", Num(0)), KV("dur", Num(EPS))>>),
      \* a rest without onset, a rest (by its empty pitch list) without duration
      Ev(<<KV("is_rest", Num(1)), KV("dur", Num(EPS + 1))>>),
      Ev(<<KV("pitches", List(<<>>)), KV("onset", Num(1))>>),
      \* a note without onset, a note whose duration does not parse
      Ev(<<KV("pitch", Num(60)), KV("dur", Num(1))>>),
      Ev(<<KV("pitch", Num(60)), KV("onset", Num(1)), KV("dur", Str("abc"))>>),
      \* a note of negative duration
      Ev(<<KV("pitch", Num(60)), KV("onset", Num(1)), KV("dur", Num(-1))>>),
      \* a note of length EPS, its onset a numeric string, its duration in eighths
      Ev(<<KV("is_rest", Bool(FALSE)), KV("start", Str("2")), KV("dur_8", Num(2 * EPS))>>),
      \* an element that is not a mapping
      Num(7) }

\* the notes are of length 0 or EPS + 1
EventValues ==
    {RestAt(o) : o \in 0..MaxOnset}
        \cup {NoteAt(o, d) : o \in 0..MaxOnset, d \in {0, EPS + 1}}
        \cup OddEvents

\* The classifier tabulated over the mappings of EventValues: each of
\* is_rest_event, get_onset and get_dur is evaluated once per event value.
Classified ==
    [ev \in {v \in EventValues : IsDict(v)} |->
        [rest |-> is_rest_event(ev), onset |-> get_onset(ev), dur |-> get_dur(ev)]]

(***************************************************************************)
(* Rest-interval extraction.                                               *)
(***************************************************************************)
\* lines 125-134: the intervals phase 1 appends, in the order of the events
RECURSIVE ExplicitRests(_)
ExplicitRests(evs) ==
    IF evs = <<>> THEN <<>>
    ELSE LET ev == Head(evs)
             onset == Classified[ev].onset
             dur == Classified[ev].dur
         IN IF ~IsDict(ev) THEN ExplicitRests(Tail(evs))
            ELSE IF ~Classified[ev].rest THEN ExplicitRests(Tail(evs))
            ELSE IF onset = Null \/ dur = Null THEN ExplicitRests(Tail(evs))
            ELSE IF dur.n > EPS
                 THEN <<<<onset.n, onset.n + dur.n>>>> \o ExplicitRests(Tail(evs))
                 ELSE ExplicitRests(Tail(evs))

\* phase 2 without the test for a negative duration
RECURSIVE ActiveSpansKeepNegative(_)
ActiveSpansKeepNegative(evs) ==
    IF evs = <<>> THEN <<>>
    ELSE LET ev == Head(evs)
             onset == Classified[ev].onset
             dur == Classified[ev].dur
         IN IF ~IsDict(ev) THEN ActiveSpansKeepNegative(Tail(evs))
            ELSE IF Classified[ev].rest THEN ActiveSpansKeepNegative(Tail(evs))
            ELSE IF onset = Null \/ dur = Null THEN ActiveSpansKeepNegative(Tail(evs))
            ELSE <<<<onset.n, onset.n + dur.n>>>> \o ActiveSpansKeepNegative(Tail(evs))

\* lines 142-154: the spans phase 2 appends, in the order of the events
RECURSIVE ActiveSpans(_)
ActiveSpans(evs) ==
    IF evs = <<>> THEN <<>>
    ELSE LET ev == Head(evs)
             onset == Classified[ev].onset
             dur == Classified[ev].dur
         IN IF ~IsDict(ev) THEN ActiveSpans(Tail(evs))
            ELSE IF Classified[ev].rest THEN ActiveSpans(Tail(evs))
            ELSE IF onset = Null \/ dur = Null THEN ActiveSpans(Tail(evs))
            ELSE IF dur.n < 0 THEN ActiveSpans(Tail(evs))
            ELSE <<<<onset.n, onset.n + dur.n>>>> \o ActiveSpans(Tail(evs))

\* the gap taken from the start of the earlier span, not from its end
RECURSIVE GapsFromStart(_)
GapsFromStart(spans) ==
    IF Len(spans) < 2 THEN <<>>
    ELSE LET s1 == spans[1][1]
             s2 == spans[2][1]
         IN IF s2 - s1 > EPS THEN <<<<s1, s2>>>> \o GapsFromStart(Tail(spans))
            ELSE GapsFromStart(Tail(spans))

\* lines 161-165: zip(active_spans, active_spans[1:]) filtered by gap > EPS
RECURSIVE Gaps(_)
Gaps(spans) ==
    IF Len(spans) < 2 THEN <<>>
    ELSE LET e1 == spans[1][2]
             s2 == spans[2][1]
         IN IF s2 - e1 > EPS THEN <<<<e1, s2>>>> \o Gaps(Tail(spans))
            ELSE Gaps(Tail(spans))

\* line 138 with "and" for "or"
ReturnPathAnd(evs, req) ==
    IF coalesce_intervals(ExplicitRests(evs), EPS) # <<>> /\ req THEN "explicit"
    ELSE IF ActiveSpans(evs) = <<>> THEN "empty"
    ELSE "inferred"

\* The return statement extract_rest_intervals leaves by: "explicit" (line
\* 139), "empty" (line 157) or "inferred" (line 167).
ReturnPath(evs, req) ==
    IF coalesce_intervals(ExplicitRests(evs), EPS) # <<>> \/ req THEN "explicit"
    ELSE IF ActiveSpans(evs) = <<>> THEN "empty"
    ELSE "inferred"

\* line 167 returning the inferred list as it is
extract_without_final_coalesce(evs, req) ==
    LET ret == ReturnPath(evs, req)
    IN CASE ret = "explicit" -> coalesce_intervals(ExplicitRests(evs), EPS)
         [] ret = "empty" -> <<>>
         [] ret = "inferred" -> Gaps(coalesce_intervals(ActiveSpans(evs), EPS))

extract_rest_intervals(evs, req) ==
    LET ret == ReturnPath(evs, req)
    IN CASE ret = "explicit" -> coalesce_intervals(ExplicitRests(evs), EPS)
         [] ret = "empty" -> <<>>
         [] ret = "inferred" ->
               coalesce_intervals(Gaps(coalesce_intervals(ActiveSpans(evs), EPS)), EPS)

(***************************************************************************)
(* Unit conversion and validation.  A rounded value is an integer number   *)
(* of 1e-6 units, one thousand grid units: what round(x, 6) keeps.         *)
(***************************************************************************)
\* round(x, 6) of x grid units, to the nearest 1e-6, ties to even
Round6(x) ==
    LET q == x \div 1000
        r == x % 1000
    IN IF r < 500 THEN q
       ELSE IF r > 500 THEN q + 1
       ELSE IF q % 2 = 0 THEN q ELSE q + 1

intervals_to_eighth_durations(ivs) ==
    [i \in 1..Len(ivs) |-> Round6((ivs[i][2] - ivs[i][1]) * 2)]

\* in 1e-6 units
EXPECTED_NIDI_PANEL1_EIGHTH ==
    <<3000000, 2500000, 1000000, 3500000, 1000000, 4000000, 1500000, 500000, 1500000,
      3000000, 2500000, 500000, 3500000, 1000000, 4000000, 1500000, 500000, 500000>>

Abs(x) == IF x < 0 THEN -x ELSE x

\* the lines validate_expected prints
validate_expected(label, got, expected) ==
    LET n == Min(Len(got), Len(expected))
        errs == {Abs(got[i] - expected[i]) : i \in 1..n}
        max_err == IF errs = {} THEN 0 ELSE CHOOSE m \in errs : \A e \in errs : e <= m
    IN (IF Len(got) # Len(expected)
        THEN <<[tag |-> "WARN", label |-> label, got |-> Len(got), expected |-> Len(expected)]>>
        ELSE <<>>)
       \o <<[tag |-> "CHECK", label |-> label, max_err |-> max_err]>>

\* [[round(s, 6), round(e, 6)] for s, e in ivs]
RoundedIntervals(ivs) == [i \in 1..Len(ivs) |-> <<Round6(ivs[i][1]), Round6(ivs[i][2])>>]

(***************************************************************************)
(* Values the variables hold while a specification does not use them.      *)
(***************************************************************************)
NoArgs == [require_explicit |-> FALSE, check_nidi_panel1 |-> FALSE, out |-> FALSE]

IdleCoalesce == intervals = <<>> /\ out = <<>> /\ out2 = <<>>
IdleExtract == events = <<>> /\ require_explicit = FALSE /\ rest_intervals = <<>> /\ path = "none"
IdleLocate == obj = Null /\ found = Null
IdleMain ==
    /\ lumen_obj = Null /\ nidi_obj = Null /\ args = NoArgs
    /\ lumen_events = Null /\ nidi_events = Null
    /\ stdout = <<>> /\ status = "running" /\ saved = <<>>

coalesceVars == <<intervals, out, out2>>
extractVars == <<events, require_explicit, rest_intervals, path>>
locateVars == <<obj, found>>
mainVars == <<lumen_obj, nidi_obj, args, lumen_events, nidi_events, stdout, status, saved>>

(***************************************************************************)
(* SpecCoalesce: coalesce_intervals applied to every list of at most       *)
(* MaxIntervals intervals with 0 <= start <= end <= MaxTime, then applied  *)
(* again to its own output.                                                *)
(***************************************************************************)
InitCoalesce ==
    /\ pc = "input"
    /\ IdleCoalesce /\ IdleExtract /\ IdleLocate /\ IdleMain

AddInterval ==
    /\ pc = "input"
    /\ Len(intervals) < MaxIntervals
    /\ \E s \in 0..MaxTime : \E e \in s..MaxTime :
          intervals' = Append(intervals, <<s, e>>)
    /\ UNCHANGED <<pc, out, out2, extractVars, locateVars, mainVars>>

Coalesce ==
    /\ pc = "input"
    /\ out' = coalesce_intervals(intervals, EPS)
    /\ pc' = "coalesced"
    /\ UNCHANGED <<intervals, out2, extractVars, locateVars, mainVars>>

Recoalesce ==
    /\ pc = "coalesced"
    /\ out2' = coalesce_intervals(out, EPS)
    /\ pc' = "recoalesced"
    /\ UNCHANGED <<intervals, out, extractVars, locateVars, mainVars>>

NextCoalesce == AddInterval \/ Coalesce \/ Recoalesce

SpecCoalesce == InitCoalesce /\ [][NextCoalesce]_vars

(***************************************************************************)
(* Properties of interval lists.                                           *)
(***************************************************************************)
WellFormed(q) == \A i \in 1..Len(q) : q[i][1] <= q[i][2]
SortedByStart(q) == \A i \in 1..(Len(q) - 1) : q[i][1] <= q[i + 1][1]
\* consecutive intervals: the later starts more than eps after the earlier ends
Separated(q, eps) == \A i \in 1..(Len(q) - 1) : q[i + 1][1] > q[i][2] + eps
\* every pair of intervals, not only consecutive ones
PairwiseDisjoint(q, eps) ==
    \A i \in 1..Len(q) : \A j \in 1..Len(q) : i < j => q[j][1] > q[i][2] + eps

RECURSIVE Measure(_)
Measure(q) == IF q = <<>> THEN 0 ELSE (Head(q)[2] - Head(q)[1]) + Measure(Tail(q))

\* Measure of the union: the unit cells [k, k+1] some interval covers.
Lo(q) == CHOOSE m \in {q[i][1] : i \in 1..Len(q)} : \A i \in 1..Len(q) : m <= q[i][1]
Hi(q) == CHOOSE m \in {q[i][2] : i \in 1..Len(q)} : \A i \in 1..Len(q) : m >= q[i][2]
UnionMeasure(q) ==
    IF q = <<>> THEN 0
    ELSE Cardinality({k \in Lo(q)..(Hi(q) - 1) :
                         \E i \in 1..Len(q) : q[i][1] <= k /\ k + 1 <= q[i][2]})

\* C3 as stated: sorted, pairwise disjoint beyond epsilon, and the covered
\* measure of the output of coalesce_intervals equals the measure of the
\* union of the input intervals.
C3_Original ==
    pc # "input" =>
        /\ SortedByStart(out)
        /\ PairwiseDisjoint(out, EPS)
        /\ Measure(out) = UnionMeasure(intervals)

\* C3 amended: the output of coalesce_intervals is sorted by start and pairwise
\* disjoint beyond epsilon; its measure is at least the union measure of the
\* input and exceeds it by at most epsilon for each merge (each input interval
\* that did not start an output interval), the excess being the gaps of at
\* most epsilon that coalescing bridges.
C3_Coalescing ==
    pc # "input" =>
        /\ SortedByStart(out)
        /\ PairwiseDisjoint(out, EPS)
        /\ Measure(out) >= UnionMeasure(intervals)
        /\ Measure(out) <= UnionMeasure(intervals) + EPS * (Len(intervals) - Len(out))

\* a merge of overlapping intervals, a bridged gap and an interval kept apart
C3_Witness ==
    /\ pc = "coalesced"
    /\ Len(intervals) = 3 /\ Len(out) = 2
    /\ Measure(out) > UnionMeasure(intervals)

\* C4: coalescing the output of coalesce_intervals returns it unchanged.
C4_Idempotent == pc = "recoalesced" => out2 = out

\* an input that was merged and reordered, coalesced twice
C4_Witness ==
    /\ pc = "recoalesced"
    /\ Len(out) = 2 /\ Len(intervals) = 3
    /\ intervals # sorted(intervals)

(***************************************************************************)
(* SpecExtract: extract_rest_intervals applied to every list of at most    *)
(* MaxEvents elements of EventValues, with either value of the flag.       *)
(***************************************************************************)
InitExtract ==
    /\ pc = "input"
    /\ IdleCoalesce /\ IdleExtract /\ IdleLocate /\ IdleMain

AddEvent ==
    /\ pc = "input"
    /\ Len(events) < MaxEvents
    /\ \E ev \in EventValues : events' = Append(events, ev)
    /\ UNCHANGED <<pc, require_explicit, rest_intervals, path, coalesceVars, locateVars, mainVars>>

Extract ==
    /\ pc = "input"
    /\ \E req \in BOOLEAN :
          /\ require_explicit' = req
          /\ rest_intervals' = extract_rest_intervals(events, req)
          /\ path' = ReturnPath(events, req)
    /\ pc' = "extracted"
    /\ UNCHANGED <<events, coalesceVars, locateVars, mainVars>>

NextExtract == AddEvent \/ Extract

SpecExtract == InitExtract /\ [][NextExtract]_vars

Extracted == pc = "extracted"

\* the classification of element i of the event list
IsRest(i) == IsDict(events[i]) /\ Classified[events[i]].rest
IsActive(i) == IsDict(events[i]) /\ ~Classified[events[i]].rest
OnsetOf(i) == Classified[events[i]].onset
DurOf(i) == Classified[events[i]].dur

\* C1: the list extract_rest_intervals returns is a coalesced interval set:
\* start <= end in every interval, sorted by start, and every interval starts
\* more than epsilon after the previous one ends.
C1_CoalescedResult ==
    Extracted =>
        /\ WellFormed(rest_intervals)
        /\ SortedByStart(rest_intervals)
        /\ Separated(rest_intervals, EPS)

\* inference from three spans whose two gaps touch, and explicit rests kept apart
C1_Witness ==
    /\ pc = "extracted"
    /\ \/ /\ path = "inferred"
          /\ Len(Gaps(coalesce_intervals(ActiveSpans(events), EPS))) = 2
          /\ Len(rest_intervals) = 1
       \/ /\ path = "explicit"
          /\ Len(rest_intervals) = 2

\* the explicit rest intervals, coalesced
CoalescedExplicit == coalesce_intervals(ExplicitRests(events), EPS)

\* C2 as stated: with at least one event classified as rest whose duration is
\* positive, extract_rest_intervals does not fall back to gap inference and
\* returns the coalesced explicit rest intervals.
C2_Original ==
    (Extracted /\ \E i \in 1..Len(events) :
                     IsRest(i) /\ DurOf(i) # Null /\ DurOf(i).n > 0)
        => (path # "inferred" /\ rest_intervals = CoalescedExplicit)

\* C2 amended: with at least one event classified as rest that has an onset
\* and a duration strictly greater than epsilon, extract_rest_intervals does
\* not fall back to gap inference, whatever the gaps between active events and
\* whatever require_explicit: it returns the coalesced explicit rest
\* intervals, which are not empty and begin and end where rest events do.
C2_ExplicitPrecedence ==
    (Extracted /\ \E i \in 1..Len(events) :
                     /\ IsRest(i) /\ OnsetOf(i) # Null /\ DurOf(i) # Null
                     /\ DurOf(i).n > EPS)
        => /\ path = "explicit"
           /\ rest_intervals = CoalescedExplicit
           /\ rest_intervals # <<>>
           /\ \A k \in 1..Len(rest_intervals) :
                 /\ \E i \in 1..Len(events) :
                       IsRest(i) /\ OnsetOf(i) # Null /\ OnsetOf(i).n = rest_intervals[k][1]
                 /\ \E i \in 1..Len(events) :
                       /\ IsRest(i) /\ OnsetOf(i) # Null /\ DurOf(i) # Null
                       /\ OnsetOf(i).n + DurOf(i).n = rest_intervals[k][2]

\* an explicit rest next to active events with a gap, inference allowed
C2_Witness ==
    /\ pc = "extracted"
    /\ ~require_explicit
    /\ path = "explicit"
    /\ rest_intervals # <<>>
    /\ Gaps(coalesce_intervals(ActiveSpans(events), EPS)) # <<>>

\* the coalesced active spans and the gaps between neighbours among them
CoalescedActive == coalesce_intervals(ActiveSpans(events), EPS)
GapsBetween(spans) ==
    LET pairs == [i \in 1..(Len(spans) - 1) |-> <<spans[i][2], spans[i + 1][1]>>]
        Long(g) == g[2] - g[1] > EPS
    IN SelectSeq(pairs, Long)
\* span a lies in interval r, and not as a single point on the boundary of r
Contains(r, a) ==
    /\ r[1] <= a[1] /\ a[2] <= r[2]
    /\ ~(a[1] = a[2] /\ (a[1] = r[1] \/ a[1] = r[2]))
NothingExplicit == Extracted /\ ExplicitRests(events) = <<>> /\ ~require_explicit

\* C5 as stated: with no explicit rest collected and require_explicit false,
\* the result is exactly the list of gaps longer than epsilon between adjacent
\* coalesced active spans, one interval per gap, and no returned interval
\* contains an active span.
C5_Original ==
    NothingExplicit =>
        /\ rest_intervals = GapsBetween(CoalescedActive)
        /\ \A k \in 1..Len(rest_intervals) : \A j \in 1..Len(ActiveSpans(events)) :
              ~Contains(rest_intervals[k], ActiveSpans(events)[j])

\* C5 amended: with no explicit rest collected and require_explicit false, the
\* result is the coalescing of the gaps longer than epsilon between adjacent
\* coalesced active spans: two gaps separated by a coalesced active span no
\* longer than epsilon are returned as one interval, so there is one interval
\* fewer than gaps for each such span; every returned interval begins where a
\* coalesced active span ends and ends where one begins, and no returned
\* interval contains an active span longer than epsilon.
C5_GapInference ==
    NothingExplicit =>
        LET spans == CoalescedActive
            gaps == GapsBetween(spans)
            short == {i \in 2..(Len(spans) - 1) : spans[i][2] - spans[i][1] <= EPS}
        IN /\ rest_intervals = coalesce_intervals(gaps, EPS)
           /\ Len(gaps) = Max(Len(spans) - 1, 0)
           /\ Len(rest_intervals) = Len(gaps) - Cardinality(short)
           /\ \A k \in 1..Len(rest_intervals) :
                 /\ \E i \in 1..Len(spans) : spans[i][2] = rest_intervals[k][1]
                 /\ \E i \in 1..Len(spans) : spans[i][1] = rest_intervals[k][2]
                 /\ \A j \in 1..Len(ActiveSpans(events)) :
                       LET a == ActiveSpans(events)[j]
                       IN a[2] - a[1] > EPS => ~Contains(rest_intervals[k], a)

\* two gaps merged across a short span
C5_Witness ==
    /\ pc = "extracted"
    /\ path = "inferred"
    /\ Len(GapsBetween(CoalescedActive)) = 2
    /\ Len(rest_intervals) = 1

\* the records the extractor is said to skip
Skipped(ev) ==
    /\ IsDict(ev)
    /\ \/ Classified[ev].onset = Null
       \/ Classified[ev].dur = Null
       \/ ~Classified[ev].rest /\ Classified[ev].dur.n < 0
Kept(ev) == ~Skipped(ev)

\* C9: a record with absent onset or duration, and an active record of negative
\* duration, is skipped: the result equals the result on the list without those
\* records, and a list that contributes no rest and no active span yields the
\* empty list.
C9_Tolerance ==
    Extracted =>
        /\ rest_intervals = extract_rest_intervals(SelectSeq(events, Kept), require_explicit)
        /\ (\A i \in 1..Len(events) : ~IsDict(events[i]) \/ Skipped(events[i]))
              => rest_intervals = <<>>

\* skipped records of each sort next to records that produce a result
C9_Witness ==
    /\ pc = "extracted"
    /\ rest_intervals # <<>>
    /\ \E i \in 1..Len(events) :
          IsActive(i) /\ DurOf(i) # Null /\ DurOf(i).n < 0
    /\ \E i \in 1..Len(events) : IsDict(events[i]) /\ OnsetOf(i) = Null

\* the events with elements i and i + 1 exchanged
Swap(q, i) == [q EXCEPT ![i] = q[i + 1], ![i + 1] = q[i]]

\* C10: extract_rest_intervals returns the same list for the same events in
\* another order.  Stated for the exchange of two neighbours in every event
\* list; exchanges of neighbours generate every permutation, and every list of
\* the model is extracted, so the result is the same for all orders.
C10_OrderIndependent ==
    Extracted =>
        \A i \in 1..(Len(events) - 1) :
            extract_rest_intervals(Swap(events, i), require_explicit) = rest_intervals

\* events given in descending order of onset, the result of two intervals or
\* inferred
C10_Witness ==
    /\ pc = "extracted"
    /\ Len(events) = MaxEvents
    /\ \A i \in 1..Len(events) : IsDict(events[i]) /\ OnsetOf(i) # Null
    /\ \A i \in 1..(Len(events) - 1) : OnsetOf(i).n > OnsetOf(i + 1).n
    /\ \/ Len(rest_intervals) = 2
       \/ path = "inferred" /\ rest_intervals # <<>>

(***************************************************************************)
(* SpecLocate: find_event_list applied to the JSON documents built from    *)
(* DocLeaves by nesting in mappings and lists, at most MaxDepth deep, a    *)
(* mapping holding at most MaxItems items.                                 *)
(***************************************************************************)
ListA == List(<<NoteAt(0, 0)>>)
ListB == List(<<RestAt(1)>>)
\* a list whose first element is a mapping and whose second is not
ListMixed == List(<<NoteAt(0, 0), Num(7)>>)
\* a list whose first element is not a mapping
ListOther == List(<<Num(7), NoteAt(0, 0)>>)

DocLeaves == {Num(7), List(<<>>), ListA, ListB, ListMixed, ListOther}
DocKeys == {"events", "data", "foo", "bar"}

RECURSIVE Depth(_)
RECURSIVE DepthOfItems(_)
DepthOfItems(q) ==
    IF q = <<>> THEN 0
    ELSE Max(Depth(Head(q)), DepthOfItems(Tail(q)))
Depth(v) ==
    IF v \in DocLeaves THEN 0
    ELSE IF IsDict(v) THEN 1 + DepthOfItems([i \in 1..Len(v.items) |-> v.items[i].v])
    ELSE IF IsList(v) THEN 1 + DepthOfItems(v.items)
    ELSE 0

InitLocate ==
    /\ pc = "input"
    /\ obj \in DocLeaves
    /\ found = Null
    /\ IdleCoalesce /\ IdleExtract /\ IdleMain

\* {k: obj}
WrapInDict ==
    /\ pc = "input"
    /\ Depth(obj) < MaxDepth
    /\ \E k \in DocKeys : obj' = Dict(<<KV(k, obj)>>)
    /\ UNCHANGED <<pc, found, coalesceVars, extractVars, mainVars>>

\* [obj]
WrapInList ==
    /\ pc = "input"
    /\ Depth(obj) < MaxDepth
    /\ obj' = List(<<obj>>)
    /\ UNCHANGED <<pc, found, coalesceVars, extractVars, mainVars>>

\* one more item in the mapping, before or after the items it has
AddItem ==
    /\ pc = "input"
    /\ IsDict(obj)
    /\ Len(obj.items) < MaxItems
    /\ \E k \in DocKeys : \E v \in DocLeaves :
          /\ ~HasKey(obj, k)
          /\ \/ obj' = Dict(Append(obj.items, KV(k, v)))
             \/ obj' = Dict(<<KV(k, v)>> \o obj.items)
    /\ UNCHANGED <<pc, found, coalesceVars, extractVars, mainVars>>

Locate ==
    /\ pc = "input"
    /\ found' = find_event_list(obj)
    /\ pc' = "located"
    /\ UNCHANGED <<obj, coalesceVars, extractVars, mainVars>>

NextLocate == WrapInDict \/ WrapInList \/ AddItem \/ Locate

SpecLocate == InitLocate /\ [][NextLocate]_vars

\* a sequence all of whose elements are mappings (the empty sequence is one)
SeqOfMappings(v) == IsList(v) /\ \A i \in 1..Len(v.items) : IsDict(v.items[i])

\* C6: find_event_list returns None or a sequence all of whose elements are
\* mappings; never a sequence with an element that is not a mapping.
C6_OnlyMappings == pc = "located" => (found = Null \/ SeqOfMappings(found))

\* the locate results of the values of a mapping, in iteration order
ValueResults(d) == [i \in 1..Len(d.items) |-> find_event_list(d.items[i].v)]
\* the first of them that is a result, None when there is none
FirstResult(rs) ==
    IF \E i \in 1..Len(rs) : rs[i] # Null
    THEN rs[CHOOSE i \in 1..Len(rs) : rs[i] # Null /\ \A j \in 1..(i - 1) : rs[j] = Null]
    ELSE Null
NoPriorityList(d) ==
    \A i \in 1..Len(PriorityKeys) : ~SeqOfMappings(GetOrNull(d, PriorityKeys[i]))

\* C7: for a mapping none of whose priority keys holds a sequence of mappings,
\* find_event_list returns the first locate result found among the mapping's
\* values in iteration order, and None only when no value yields a result.
C7_Fallback ==
    (pc = "located" /\ IsDict(obj) /\ NoPriorityList(obj))
        => found = FirstResult(ValueResults(obj))

(***************************************************************************)
(* SpecMain: main() from the two loaded documents on, for every pair of    *)
(* documents of MainDocs and every setting of the three options.           *)
(***************************************************************************)
MainDocs ==
    { Dict(<<KV("events", List(<<RestAt(4), RestAt(0)>>))>>),
      Dict(<<KV("foo", Dict(<<KV("bar", List(<<NoteAt(0, 0), NoteAt(3, 0)>>))>>))>>),
      List(<<>>),
      ListMixed,
      Num(7),
      Dict(<<KV("foo", Num(1)), KV("bar", ListOther)>>) }

InitMain ==
    /\ pc = "loaded"
    /\ lumen_obj \in MainDocs
    /\ nidi_obj \in MainDocs
    /\ args \in [require_explicit : BOOLEAN, check_nidi_panel1 : BOOLEAN, out : BOOLEAN]
    /\ lumen_events = Null /\ nidi_events = Null
    /\ stdout = <<>> /\ status = "running" /\ saved = <<>>
    /\ IdleCoalesce /\ IdleExtract /\ IdleLocate

\* lines 196-197
CanLocateBoth == pc = "loaded"
LocateBoth ==
    /\ CanLocateBoth
    /\ lumen_events' = find_event_list(lumen_obj)
    /\ nidi_events' = find_event_list(nidi_obj)
    /\ pc' = "located"
    /\ UNCHANGED <<lumen_obj, nidi_obj, args, stdout, status, saved,
                   coalesceVars, extractVars, locateVars>>

\* lines 199-200
CanFailLumen == pc = "located" /\ lumen_events = Null
FailLumen ==
    /\ CanFailLumen
    /\ status' = "Could not find an event list in Lumen JSON."
    /\ pc' = "exited"
    /\ UNCHANGED <<lumen_obj, nidi_obj, args, lumen_events, nidi_events, stdout, saved,
                   coalesceVars, extractVars, locateVars>>

\* lines 201-202
CanFailNidi == pc = "located" /\ lumen_events # Null /\ nidi_events = Null
FailNidi ==
    /\ CanFailNidi
    /\ status' = "Could not find an event list in Nidi JSON."
    /\ pc' = "exited"
    /\ UNCHANGED <<lumen_obj, nidi_obj, args, lumen_events, nidi_events, stdout, saved,
                   coalesceVars, extractVars, locateVars>>

LumenIntervals == extract_rest_intervals(lumen_events.items, args.require_explicit)
NidiIntervals == extract_rest_intervals(nidi_events.items, args.require_explicit)

\* lines 204-213
CanExtractAndPrint == pc = "located" /\ lumen_events # Null /\ nidi_events # Null
ExtractAndPrint ==
    /\ CanExtractAndPrint
    /\ LET rests_lumen == intervals_to_eighth_durations(LumenIntervals)
           rests_nidi == intervals_to_eighth_durations(NidiIntervals)
       IN stdout' = stdout \o
              << [tag |-> "rests_lumen", v |-> rests_lumen],
                 [tag |-> "rests_nidi", v |-> rests_nidi],
                 [tag |-> "INFO Lumen", n |-> Len(rests_lumen)],
                 [tag |-> "INFO Nidi", n |-> Len(rests_nidi)] >>
    /\ pc' = "printed"
    /\ UNCHANGED <<lumen_obj, nidi_obj, args, lumen_events, nidi_events, status, saved,
                   coalesceVars, extractVars, locateVars>>

\* a length mismatch treated as fatal
ValidateFatal ==
    /\ pc = "printed"
    /\ args.check_nidi_panel1
    /\ IF Len(intervals_to_eighth_durations(NidiIntervals)) # Len(EXPECTED_NIDI_PANEL1_EIGHTH)
       THEN /\ status' = "Nidi panel 1: length mismatch"
            /\ pc' = "exited"
            /\ stdout' = stdout
       ELSE /\ stdout' = stdout \o validate_expected("Nidi panel 1",
                                      intervals_to_eighth_durations(NidiIntervals),
                                      EXPECTED_NIDI_PANEL1_EIGHTH)
            /\ pc' = "validated"
            /\ status' = status
    /\ UNCHANGED <<lumen_obj, nidi_obj, args, lumen_events, nidi_events, saved,
                   coalesceVars, extractVars, locateVars>>

\* lines 215-216, the option given
CanValidate == pc = "printed" /\ args.check_nidi_panel1
Validate ==
    /\ CanValidate
    /\ stdout' = stdout \o validate_expected("Nidi panel 1",
                                             intervals_to_eighth_durations(NidiIntervals),
                                             EXPECTED_NIDI_PANEL1_EIGHTH)
    /\ pc' = "validated"
    /\ UNCHANGED <<lumen_obj, nidi_obj, args, lumen_events, nidi_events, status, saved,
                   coalesceVars, extractVars, locateVars>>

\* line 215, the option not given
CanSkipValidate == pc = "printed" /\ ~args.check_nidi_panel1
SkipValidate ==
    /\ CanSkipValidate
    /\ pc' = "validated"
    /\ UNCHANGED <<lumen_obj, nidi_obj, args, lumen_events, nidi_events, stdout, status, saved,
                   coalesceVars, extractVars, locateVars>>

\* lines 218-227
Payload ==
    [lumen |-> [rests_eighth |-> intervals_to_eighth_durations(LumenIntervals),
                rest_intervals_quarter |-> RoundedIntervals(LumenIntervals)],
     nidi |-> [rests_eighth |-> intervals_to_eighth_durations(NidiIntervals),
               rest_intervals_quarter |-> RoundedIntervals(NidiIntervals)]]

\* lines 229-232, --out given; the file is taken to be writable
CanSave == pc = "validated" /\ args.out
Save ==
    /\ CanSave
    /\ saved' = <<Payload>>
    /\ stdout' = Append(stdout, [tag |-> "OK Saved"])
    /\ status' = "ok"
    /\ pc' = "done"
    /\ UNCHANGED <<lumen_obj, nidi_obj, args, lumen_events, nidi_events,
                   coalesceVars, extractVars, locateVars>>

\* line 229, --out not given
CanFinish == pc = "validated" /\ ~args.out
Finish ==
    /\ CanFinish
    /\ status' = "ok"
    /\ pc' = "done"
    /\ UNCHANGED <<lumen_obj, nidi_obj, args, lumen_events, nidi_events, stdout, saved,
                   coalesceVars, extractVars, locateVars>>

NextMain ==
    \/ LocateBoth \/ FailLumen \/ FailNidi \/ ExtractAndPrint
    \/ Validate \/ SkipValidate \/ Save \/ Finish

SpecMain == InitMain /\ [][NextMain]_vars

\* SystemExit with a message
Aborted == status \notin {"running", "ok"}
Unlocatable == find_event_list(lumen_obj) = Null \/ find_event_list(nidi_obj) = Null
InMain == pc \in {"loaded", "located", "printed", "validated", "done", "exited"}

\* the guard of some step of main holds (each step's update is total)
CanStep ==
    \/ CanLocateBoth \/ CanFailLumen \/ CanFailNidi \/ CanExtractAndPrint
    \/ CanValidate \/ CanSkipValidate \/ CanSave \/ CanFinish

\* C8: the run ends abnormally exactly when the event list of the Lumen or of
\* the Nidi document cannot be located, and then before any result line is
\* printed or the output file written; otherwise it runs on to its normal end,
\* whatever validate_expected reports: it stops nowhere but at the abnormal
\* exit with a document unlocatable, or at the normal end with both located.
C8_ExitBehaviour ==
    InMain =>
        /\ Aborted => (Unlocatable /\ pc = "exited" /\ stdout = <<>> /\ saved = <<>>)
        /\ pc = "exited" => Aborted
        /\ pc \in {"printed", "validated", "done"} => ~Unlocatable
        /\ (stdout # <<>> \/ saved # <<>>) => ~Unlocatable
        /\ pc = "done" => status = "ok"
        /\ pc \notin {"done", "exited"} => (status = "running" /\ CanStep)
        /\ (pc = "located" /\ Unlocatable) => ~CanExtractAndPrint

\* a normal end after a length-mismatch warning and a non-zero error
C8_Witness ==
    /\ pc = "done"
    /\ status = "ok"
    /\ \E i \in 1..Len(stdout) : stdout[i].tag = "WARN"
    /\ \E i \in 1..Len(stdout) : stdout[i].tag = "CHECK" /\ stdout[i].max_err > 0
    /\ saved # <<>>

====
